---- MODULE Spec2Model ----
(***************************************************************************)
(* State-machine model of the axionquant MCP server (src/index.js): the    *)
(* ListTools handler (the tool catalog), the CallTool handler (the switch   *)
(* over tool names, required-parameter checks, endpoint building, the       *)
(* success and error envelopes) and makeApiRequest (one fetch, then the     *)
(* reading of the body).                                                    *)
(*                                                                          *)
(* JavaScript strings are TLC strings; operators that work on characters    *)
(* (encodeURIComponent, JSON.stringify, substring search) take them apart   *)
(* with SubSeq.  JavaScript values are records [t, s, n] tagged with their  *)
(* typeof; parsed JSON payloads are records [t, s, n, kids].                *)
(***************************************************************************)
EXTENDS Integers, Sequences, FiniteSets, TLC

VARIABLES apiKey, calls, listed, process

vars == <<apiKey, calls, listed, process>>

(***************************************************************************)
(* Bounds of the model.                                                     *)
(***************************************************************************)
\* The largest number of keys an argument bag of a call carries.
MaxArgs == 2

(***************************************************************************)
(* JavaScript values of the argument bag and of the environment.            *)
(***************************************************************************)
Undef == [t |-> "undefined", s |-> "", n |-> 0]

Null == [t |-> "null", s |-> "", n |-> 0]

Str(s) == [t |-> "string", s |-> s, n |-> 0]

Num(n) == [t |-> "number", s |-> "", n |-> n]

Bool(b) == [t |-> "boolean", s |-> "", n |-> IF b THEN 1 ELSE 0]

\* Mutant of Truthy: the guard tests `=== undefined` instead of falsiness.
TruthyNotUndefined(v) == v.t # "undefined"

\* ToBoolean, as applied by `!args.x` and by `API_KEY && ...`.
Truthy(v) ==
  CASE v.t = "string" -> v.s # ""
    [] v.t = "number" -> v.n # 0
    [] v.t = "boolean" -> v.n = 1
    [] OTHER -> FALSE

\* ToString, as applied by a template literal and by encodeURIComponent.
ToStr(v) ==
  CASE v.t = "string" -> v.s
    [] v.t = "number" -> ToString(v.n)
    [] v.t = "boolean" -> (IF v.n = 1 THEN "true" ELSE "false")
    [] v.t = "null" -> "null"
    [] v.t = "undefined" -> "undefined"

(***************************************************************************)
(* Strings.                                                                 *)
(***************************************************************************)
CharAt(s, i) == SubSeq(s, i, i)

RestFrom(s, i) == SubSeq(s, i, Len(s))

\* sub occurs in text at position i or at a position before it.
RECURSIVE OccursAtOrBefore(_, _, _)
OccursAtOrBefore(text, sub, i) ==
  /\ i >= 1
  /\ \/ SubSeq(text, i, i + Len(sub) - 1) = sub
     \/ OccursAtOrBefore(text, sub, i - 1)

\* text contains sub as a substring.
Contains(text, sub) == OccursAtOrBefore(text, sub, Len(text) - Len(sub) + 1)

\* The number of occurrences of the character ch in s.
CountChar(s, ch) == Cardinality({ i \in 1..Len(s) : CharAt(s, i) = ch })

\* The characters encodeURIComponent leaves alone (ECMA-262 uriUnescaped).
Unreserved ==
  { "A", "B", "C", "D", "E", "F", "G", "H", "I", "J", "K", "L", "M",
    "N", "O", "P", "Q", "R", "S", "T", "U", "V", "W", "X", "Y", "Z",
    "a", "b", "c", "d", "e", "f", "g", "h", "i", "j", "k", "l", "m",
    "n", "o", "p", "q", "r", "s", "t", "u", "v", "w", "x", "y", "z",
    "0", "1", "2", "3", "4", "5", "6", "7", "8", "9",
    "-", "_", ".", "!", "~", "*", "'", "(", ")" }

\* The escape of one character outside Unreserved (its UTF-8 byte in hex).
PercentEscape(ch) ==
  CASE ch = " " -> "%20"
    [] ch = "\"" -> "%22"
    [] ch = "#" -> "%23"
    [] ch = "$" -> "%24"
    [] ch = "%" -> "%25"
    [] ch = "&" -> "%26"
    [] ch = "+" -> "%2B"
    [] ch = "," -> "%2C"
    [] ch = "/" -> "%2F"
    [] ch = ":" -> "%3A"
    [] ch = ";" -> "%3B"
    [] ch = "=" -> "%3D"
    [] ch = "?" -> "%3F"
    [] ch = "@" -> "%40"

RECURSIVE encodeURIComponent(_)
encodeURIComponent(s) ==
  IF s = "" THEN ""
  ELSE (IF CharAt(s, 1) \in Unreserved THEN CharAt(s, 1) ELSE PercentEscape(CharAt(s, 1)))
       \o encodeURIComponent(RestFrom(s, 2))

\* Array.prototype.join.
RECURSIVE Join(_, _)
Join(parts, sep) ==
  IF parts = <<>> THEN ""
  ELSE IF Len(parts) = 1 THEN parts[1]
  ELSE parts[1] \o sep \o Join(Tail(parts), sep)

(***************************************************************************)
(* JSON payloads and JSON.stringify(value, null, 2).                        *)
(***************************************************************************)
JNull == [t |-> "null", s |-> "", n |-> 0, kids |-> <<>>]

JBool(b) == [t |-> "boolean", s |-> "", n |-> IF b THEN 1 ELSE 0, kids |-> <<>>]

JNum(n) == [t |-> "number", s |-> "", n |-> n, kids |-> <<>>]

JStr(s) == [t |-> "string", s |-> s, n |-> 0, kids |-> <<>>]

\* An array: kids are [k |-> "", v |-> element].
JArr(elems) ==
  [t |-> "array", s |-> "", n |-> 0,
   kids |-> [i \in 1..Len(elems) |-> [k |-> "", v |-> elems[i]]]]

\* An object: kids are [k |-> key, v |-> value] in insertion order.
JObj(members) == [t |-> "object", s |-> "", n |-> 0, kids |-> members]

\* `let result;` before any assignment.
JUndefined == [t |-> "undefined", s |-> "", n |-> 0, kids |-> <<>>]

\* QuoteJSONString: the characters that JSON.stringify escapes in a string.
RECURSIVE QuoteBody(_)
QuoteBody(s) ==
  IF s = "" THEN ""
  ELSE (CASE CharAt(s, 1) = "\"" -> "\\\""
          [] CharAt(s, 1) = "\\" -> "\\\\"
          [] CharAt(s, 1) = "\n" -> "\\n"
          [] OTHER -> CharAt(s, 1))
       \o QuoteBody(RestFrom(s, 2))

Quote(s) == "\"" \o QuoteBody(s) \o "\""

RECURSIVE Indent(_)
Indent(level) == IF level = 0 THEN "" ELSE "  " \o Indent(level - 1)

RECURSIVE SerializeJSON(_, _)
SerializeJSON(v, level) ==
  CASE v.t = "null" -> "null"
    [] v.t = "boolean" -> (IF v.n = 1 THEN "true" ELSE "false")
    [] v.t = "number" -> ToString(v.n)
    [] v.t = "string" -> Quote(v.s)
    [] v.t = "array" ->
         IF v.kids = <<>> THEN "[]"
         ELSE "[\n"
              \o Join([i \in 1..Len(v.kids) |->
                         Indent(level + 1) \o SerializeJSON(v.kids[i].v, level + 1)],
                      ",\n")
              \o "\n" \o Indent(level) \o "]"
    [] v.t = "object" ->
         IF v.kids = <<>> THEN "{}"
         ELSE "{\n"
              \o Join([i \in 1..Len(v.kids) |->
                         Indent(level + 1) \o Quote(v.kids[i].k) \o ": "
                         \o SerializeJSON(v.kids[i].v, level + 1)],
                      ",\n")
              \o "\n" \o Indent(level) \o "}"

\* JSON.stringify(result, null, 2) of src/index.js line 1378.
JSONStringify(v) == SerializeJSON(v, 0)

(***************************************************************************)
(* Program constants and configuration.                                     *)
(***************************************************************************)
API_BASE_URL == "https://api.axionquant.com/"

\* process.env.API_KEY: unset, set to the empty string, or set to a key.
ApiKeys == { Undef, Str(""), Str("sk-live-KEY") }

(***************************************************************************)
(* The tool catalog returned by the ListTools handler, in source order:     *)
(* each definition's name, the keys of inputSchema.properties in declared   *)
(* order, and inputSchema.required.                                         *)
(***************************************************************************)
Catalog ==
  << [name |-> "credit_search", props |-> <<"query">>, required |-> <<>>],
     [name |-> "credit_ratings", props |-> <<"id">>, required |-> <<"id">>],
     [name |-> "econ_search", props |-> <<"query">>, required |-> <<"query">>],
     [name |-> "econ_dataset", props |-> <<"id">>, required |-> <<"id">>],
     [name |-> "econ_calendar", props |-> <<"from", "to", "country", "minImportance", "currency", "category">>, required |-> <<>>],
     [name |-> "esg_data", props |-> <<"ticker">>, required |-> <<"ticker">>],
     [name |-> "etf_fund", props |-> <<"ticker">>, required |-> <<"ticker">>],
     [name |-> "etf_weights", props |-> <<"ticker">>, required |-> <<"ticker">>],
     [name |-> "etf_holdings", props |-> <<"ticker">>, required |-> <<"ticker">>],
     [name |-> "etf_exposure", props |-> <<"ticker">>, required |-> <<"ticker">>],
     [name |-> "news_ticker", props |-> <<"ticker">>, required |-> <<"ticker">>],
     [name |-> "news_country", props |-> <<"country">>, required |-> <<"country">>],
     [name |-> "news_category", props |-> <<"category">>, required |-> <<"category">>],
     [name |-> "news_general", props |-> <<>>, required |-> <<>>],
     [name |-> "sentiment_social", props |-> <<"ticker">>, required |-> <<"ticker">>],
     [name |-> "sentiment_news", props |-> <<"ticker">>, required |-> <<"ticker">>],
     [name |-> "sentiment_analyst", props |-> <<"ticker">>, required |-> <<"ticker">>],
     [name |-> "supply_chain_customers", props |-> <<"ticker">>, required |-> <<"ticker">>],
     [name |-> "supply_chain_peers", props |-> <<"ticker">>, required |-> <<"ticker">>],
     [name |-> "supply_chain_suppliers", props |-> <<"ticker">>, required |-> <<"ticker">>],
     [name |-> "profiles_asset", props |-> <<"ticker">>, required |-> <<"ticker">>],
     [name |-> "profiles_recommendation", props |-> <<"ticker">>, required |-> <<"ticker">>],
     [name |-> "profiles_cashflow", props |-> <<"ticker">>, required |-> <<"ticker">>],
     [name |-> "profiles_trend_index", props |-> <<"ticker">>, required |-> <<"ticker">>],
     [name |-> "profiles_statistics", props |-> <<"ticker">>, required |-> <<"ticker">>],
     [name |-> "profiles_income", props |-> <<"ticker">>, required |-> <<"ticker">>],
     [name |-> "profiles_fund", props |-> <<"ticker">>, required |-> <<"ticker">>],
     [name |-> "profiles_summary", props |-> <<"ticker">>, required |-> <<"ticker">>],
     [name |-> "profiles_insiders", props |-> <<"ticker">>, required |-> <<"ticker">>],
     [name |-> "profiles_calendar", props |-> <<"ticker">>, required |-> <<"ticker">>],
     [name |-> "profiles_balancesheet", props |-> <<"ticker">>, required |-> <<"ticker">>],
     [name |-> "profiles_trend_earnings", props |-> <<"ticker">>, required |-> <<"ticker">>],
     [name |-> "profiles_institution", props |-> <<"ticker">>, required |-> <<"ticker">>],
     [name |-> "profiles_ownership", props |-> <<"ticker">>, required |-> <<"ticker">>],
     [name |-> "profiles_earnings", props |-> <<"ticker">>, required |-> <<"ticker">>],
     [name |-> "profiles_info", props |-> <<"ticker">>, required |-> <<"ticker">>],
     [name |-> "profiles_activity", props |-> <<"ticker">>, required |-> <<"ticker">>],
     [name |-> "profiles_transactions", props |-> <<"ticker">>, required |-> <<"ticker">>],
     [name |-> "profiles_financials", props |-> <<"ticker">>, required |-> <<"ticker">>],
     [name |-> "profiles_traffic", props |-> <<"ticker">>, required |-> <<"ticker">>],
     [name |-> "crypto_tickers", props |-> <<"type">>, required |-> <<>>],
     [name |-> "crypto_ticker", props |-> <<"ticker">>, required |-> <<"ticker">>],
     [name |-> "crypto_prices", props |-> <<"ticker">>, required |-> <<"ticker">>],
     [name |-> "forex_tickers", props |-> <<"country", "exchange">>, required |-> <<>>],
     [name |-> "forex_ticker", props |-> <<"ticker">>, required |-> <<"ticker">>],
     [name |-> "forex_prices", props |-> <<"ticker">>, required |-> <<"ticker">>],
     [name |-> "future_tickers", props |-> <<"exchange">>, required |-> <<>>],
     [name |-> "future_ticker", props |-> <<"ticker">>, required |-> <<"ticker">>],
     [name |-> "future_prices", props |-> <<"ticker">>, required |-> <<"ticker">>],
     [name |-> "indices_tickers", props |-> <<"exchange">>, required |-> <<>>],
     [name |-> "indices_ticker", props |-> <<"ticker">>, required |-> <<"ticker">>],
     [name |-> "indices_prices", props |-> <<"ticker">>, required |-> <<"ticker">>],
     [name |-> "indices_tickers", props |-> <<"exchange">>, required |-> <<>>],
     [name |-> "indices_ticker", props |-> <<"ticker">>, required |-> <<"ticker">>],
     [name |-> "indices_prices", props |-> <<"ticker">>, required |-> <<"ticker">>],
     [name |-> "stocks_tickers", props |-> <<"country", "exchange">>, required |-> <<>>],
     [name |-> "stocks_ticker", props |-> <<"ticker">>, required |-> <<"ticker">>],
     [name |-> "stocks_prices", props |-> <<"ticker">>, required |-> <<"ticker">>] >>

(***************************************************************************)
(* The switch of the CallTool handler, one entry per case label in source   *)
(* order: req/msg are the `if (!args.req) throw new Error(msg)` guard (req  *)
(* is "" when the case has none); the endpoint template is pre, then the    *)
(* required argument ("raw": interpolated as is, "enc": through             *)
(* encodeURIComponent, "none": not interpolated), then post, then           *)
(* buildQueryString over the keys qkeys in the order of the object literal. *)
(***************************************************************************)
Cases ==
  << [name |-> "credit_search", req |-> "", msg |-> "",
      pre |-> "credit/search", arg |-> "none", post |-> "", qkeys |-> <<"query">>],
     [name |-> "credit_ratings", req |-> "id", msg |-> "Organization ID is required",
      pre |-> "credit/ratings/", arg |-> "raw", post |-> "", qkeys |-> <<>>],
     [name |-> "econ_search", req |-> "query", msg |-> "Search query is required",
      pre |-> "econ/search", arg |-> "none", post |-> "", qkeys |-> <<"query">>],
     [name |-> "econ_dataset", req |-> "id", msg |-> "Dataset ID is required",
      pre |-> "econ/dataset/", arg |-> "raw", post |-> "", qkeys |-> <<>>],
     [name |-> "econ_calendar", req |-> "", msg |-> "",
      pre |-> "econ/calendar", arg |-> "none", post |-> "", qkeys |-> <<"from", "to", "country", "minImportance", "currency", "category">>],
     [name |-> "esg_data", req |-> "ticker", msg |-> "Ticker symbol is required",
      pre |-> "esg/", arg |-> "raw", post |-> "", qkeys |-> <<>>],
     [name |-> "etf_fund", req |-> "ticker", msg |-> "ETF ticker symbol is required",
      pre |-> "etf/", arg |-> "raw", post |-> "/fund", qkeys |-> <<>>],
     [name |-> "etf_weights", req |-> "ticker", msg |-> "ETF ticker symbol is required",
      pre |-> "etf/", arg |-> "raw", post |-> "/weights", qkeys |-> <<>>],
     [name |-> "etf_holdings", req |-> "ticker", msg |-> "ETF ticker symbol is required",
      pre |-> "etf/", arg |-> "raw", post |-> "/holdings", qkeys |-> <<>>],
     [name |-> "etf_exposure", req |-> "ticker", msg |-> "Ticker symbol is required",
      pre |-> "etf/", arg |-> "raw", post |-> "/exposure", qkeys |-> <<>>],
     [name |-> "news_ticker", req |-> "ticker", msg |-> "Ticker symbol is required",
      pre |-> "news/", arg |-> "raw", post |-> "", qkeys |-> <<>>],
     [name |-> "news_country", req |-> "country", msg |-> "Country parameter is required",
      pre |-> "news/country/", arg |-> "enc", post |-> "", qkeys |-> <<>>],
     [name |-> "news_category", req |-> "category", msg |-> "Category parameter is required",
      pre |-> "news/category/", arg |-> "enc", post |-> "", qkeys |-> <<>>],
     [name |-> "news_general", req |-> "", msg |-> "",
      pre |-> "news", arg |-> "none", post |-> "", qkeys |-> <<>>],
     [name |-> "sentiment_social", req |-> "ticker", msg |-> "Ticker symbol is required",
      pre |-> "sentiment/", arg |-> "raw", post |-> "/social", qkeys |-> <<>>],
     [name |-> "sentiment_news", req |-> "ticker", msg |-> "Ticker symbol is required",
      pre |-> "sentiment/", arg |-> "raw", post |-> "/news", qkeys |-> <<>>],
     [name |-> "sentiment_analyst", req |-> "ticker", msg |-> "Ticker symbol is required",
      pre |-> "sentiment/", arg |-> "raw", post |-> "/analyst", qkeys |-> <<>>],
     [name |-> "supply_chain_customers", req |-> "ticker", msg |-> "Ticker symbol is required",
      pre |-> "supply-chain/", arg |-> "raw", post |-> "/customers", qkeys |-> <<>>],
     [name |-> "supply_chain_peers", req |-> "ticker", msg |-> "Ticker symbol is required",
      pre |-> "supply-chain/", arg |-> "raw", post |-> "/peers", qkeys |-> <<>>],
     [name |-> "supply_chain_suppliers", req |-> "ticker", msg |-> "Ticker symbol is required",
      pre |-> "supply-chain/", arg |-> "raw", post |-> "/suppliers", qkeys |-> <<>>],
     [name |-> "profiles_asset", req |-> "ticker", msg |-> "Ticker symbol is required",
      pre |-> "profiles/", arg |-> "raw", post |-> "/asset", qkeys |-> <<>>],
     [name |-> "profiles_recommendation", req |-> "ticker", msg |-> "Ticker symbol is required",
      pre |-> "profiles/", arg |-> "raw", post |-> "/recommendation", qkeys |-> <<>>],
     [name |-> "profiles_cashflow", req |-> "ticker", msg |-> "Ticker symbol is required",
      pre |-> "profiles/", arg |-> "raw", post |-> "/cashflow", qkeys |-> <<>>],
     [name |-> "profiles_trend_index", req |-> "ticker", msg |-> "Ticker symbol is required",
      pre |-> "profiles/", arg |-> "raw", post |-> "/trend/index", qkeys |-> <<>>],
     [name |-> "profiles_statistics", req |-> "ticker", msg |-> "Ticker symbol is required",
      pre |-> "profiles/", arg |-> "raw", post |-> "/statistics", qkeys |-> <<>>],
     [name |-> "profiles_income", req |-> "ticker", msg |-> "Ticker symbol is required",
      pre |-> "profiles/", arg |-> "raw", post |-> "/income", qkeys |-> <<>>],
     [name |-> "profiles_fund", req |-> "ticker", msg |-> "Ticker symbol is required",
      pre |-> "profiles/", arg |-> "raw", post |-> "/fund", qkeys |-> <<>>],
     [name |-> "profiles_summary", req |-> "ticker", msg |-> "Ticker symbol is required",
      pre |-> "profiles/", arg |-> "raw", post |-> "/summary", qkeys |-> <<>>],
     [name |-> "profiles_insiders", req |-> "ticker", msg |-> "Ticker symbol is required",
      pre |-> "profiles/", arg |-> "raw", post |-> "/insiders", qkeys |-> <<>>],
     [name |-> "profiles_calendar", req |-> "ticker", msg |-> "Ticker symbol is required",
      pre |-> "profiles/", arg |-> "raw", post |-> "/calendar", qkeys |-> <<>>],
     [name |-> "profiles_balancesheet", req |-> "ticker", msg |-> "Ticker symbol is required",
      pre |-> "profiles/", arg |-> "raw", post |-> "/balancesheet", qkeys |-> <<>>],
     [name |-> "profiles_trend_earnings", req |-> "ticker", msg |-> "Ticker symbol is required",
      pre |-> "profiles/", arg |-> "raw", post |-> "/trend/earnings", qkeys |-> <<>>],
     [name |-> "profiles_institution", req |-> "ticker", msg |-> "Ticker symbol is required",
      pre |-> "profiles/", arg |-> "raw", post |-> "/institution", qkeys |-> <<>>],
     [name |-> "profiles_ownership", req |-> "ticker", msg |-> "Ticker symbol is required",
      pre |-> "profiles/", arg |-> "raw", post |-> "/ownership", qkeys |-> <<>>],
     [name |-> "profiles_earnings", req |-> "ticker", msg |-> "Ticker symbol is required",
      pre |-> "profiles/", arg |-> "raw", post |-> "/earnings", qkeys |-> <<>>],
     [name |-> "profiles_info", req |-> "ticker", msg |-> "Ticker symbol is required",
      pre |-> "profiles/", arg |-> "raw", post |-> "/info", qkeys |-> <<>>],
     [name |-> "profiles_activity", req |-> "ticker", msg |-> "Ticker symbol is required",
      pre |-> "profiles/", arg |-> "raw", post |-> "/activity", qkeys |-> <<>>],
     [name |-> "profiles_transactions", req |-> "ticker", msg |-> "Ticker symbol is required",
      pre |-> "profiles/", arg |-> "raw", post |-> "/transactions", qkeys |-> <<>>],
     [name |-> "profiles_financials", req |-> "ticker", msg |-> "Ticker symbol is required",
      pre |-> "profiles/", arg |-> "raw", post |-> "/financials", qkeys |-> <<>>],
     [name |-> "profiles_traffic", req |-> "ticker", msg |-> "Ticker symbol is required",
      pre |-> "profiles/", arg |-> "raw", post |-> "/traffic", qkeys |-> <<>>],
     [name |-> "crypto_tickers", req |-> "", msg |-> "",
      pre |-> "crypto/tickers", arg |-> "none", post |-> "", qkeys |-> <<"type">>],
     [name |-> "crypto_ticker", req |-> "ticker", msg |-> "Cryptocurrency ticker symbol is required",
      pre |-> "crypto/", arg |-> "raw", post |-> "", qkeys |-> <<>>],
     [name |-> "crypto_prices", req |-> "ticker", msg |-> "Cryptocurrency ticker symbol is required",
      pre |-> "crypto/", arg |-> "raw", post |-> "/prices", qkeys |-> <<>>],
     [name |-> "forex_tickers", req |-> "", msg |-> "",
      pre |-> "forex/tickers", arg |-> "none", post |-> "", qkeys |-> <<"country", "exchange">>],
     [name |-> "forex_ticker", req |-> "ticker", msg |-> "Forex ticker symbol is required",
      pre |-> "forex/", arg |-> "raw", post |-> "", qkeys |-> <<>>],
     [name |-> "forex_prices", req |-> "ticker", msg |-> "Forex ticker symbol is required",
      pre |-> "forex/", arg |-> "raw", post |-> "/prices", qkeys |-> <<>>],
     [name |-> "future_tickers", req |-> "", msg |-> "",
      pre |-> "future/tickers", arg |-> "none", post |-> "", qkeys |-> <<"exchange">>],
     [name |-> "future_ticker", req |-> "ticker", msg |-> "Futures ticker symbol is required",
      pre |-> "future/", arg |-> "raw", post |-> "", qkeys |-> <<>>],
     [name |-> "future_prices", req |-> "ticker", msg |-> "Futures ticker symbol is required",
      pre |-> "future/", arg |-> "raw", post |-> "/prices", qkeys |-> <<>>],
     [name |-> "indices_tickers", req |-> "", msg |-> "",
      pre |-> "indices/tickers", arg |-> "none", post |-> "", qkeys |-> <<"exchange">>],
     [name |-> "indices_ticker", req |-> "ticker", msg |-> "Index ticker symbol is required",
      pre |-> "indices/", arg |-> "raw", post |-> "", qkeys |-> <<>>],
     [name |-> "indices_prices", req |-> "ticker", msg |-> "Index ticker symbol is required",
      pre |-> "indices/", arg |-> "raw", post |-> "/prices", qkeys |-> <<>>],
     [name |-> "stocks_tickers", req |-> "", msg |-> "",
      pre |-> "stocks/tickers", arg |-> "none", post |-> "", qkeys |-> <<"country", "exchange">>],
     [name |-> "stocks_ticker", req |-> "ticker", msg |-> "Stock ticker symbol is required",
      pre |-> "stocks/", arg |-> "raw", post |-> "", qkeys |-> <<>>],
     [name |-> "stocks_prices", req |-> "ticker", msg |-> "Stock ticker symbol is required",
      pre |-> "stocks/", arg |-> "raw", post |-> "/prices", qkeys |-> <<>>] >>

\* Mutant of CaseIndex: the switch has no `default:` and an unmatched name
\* runs the last case.
CaseIndexNoDefault(name) ==
  IF \E i \in 1..Len(Cases) : Cases[i].name = name
  THEN CHOOSE i \in 1..Len(Cases) : Cases[i].name = name
  ELSE Len(Cases)

\* Mutant of CaseIndex: the case for stocks_prices is missing from the
\* switch, so that name falls to `default:`.
CaseIndexMissingCase(name) ==
  IF name = "stocks_prices" THEN 0
  ELSE IF \E i \in 1..Len(Cases) : Cases[i].name = name
  THEN CHOOSE i \in 1..Len(Cases) : Cases[i].name = name
  ELSE 0

\* The switch compares name with the case labels from the top: the index
\* of the first label at or after i equal to name; 0 selects `default:`.
RECURSIVE FirstCaseFrom(_, _)
FirstCaseFrom(name, i) ==
  IF i > Len(Cases) THEN 0
  ELSE IF Cases[i].name = name THEN i
  ELSE FirstCaseFrom(name, i + 1)

CaseIndex(name) == FirstCaseFrom(name, 1)

(***************************************************************************)
(* The argument bag of a call: request.params.arguments.  omitted is TRUE   *)
(* when the request carries no arguments member (args is undefined);        *)
(* otherwise pairs lists the members in the order the caller wrote them.    *)
(***************************************************************************)
NoArgs == [omitted |-> TRUE, pairs |-> <<>>]

Bag(pairs) == [omitted |-> FALSE, pairs |-> pairs]

\* args.key: the member's value, undefined when the bag has no such member.
Get(args, key) ==
  IF \E i \in 1..Len(args.pairs) : args.pairs[i].k = key
  THEN args.pairs[CHOOSE i \in 1..Len(args.pairs) : args.pairs[i].k = key].v
  ELSE Undef

(***************************************************************************)
(* buildQueryString (src/index.js lines 41-47).  params is the object       *)
(* literal handed over: its entries in literal order.                       *)
(***************************************************************************)
\* Mutant of KeptByFilter: only undefined is filtered out.
KeptByFilterUndefinedOnly(value) == value # Undef

KeptByFilter(value) == value # Undef /\ value # Null /\ value # Str("")

buildQueryString(params) ==
  LET filtered == SelectSeq(params, LAMBDA e : KeptByFilter(e.v))
      mapped == [i \in 1..Len(filtered) |->
                   filtered[i].k \o "=" \o encodeURIComponent(ToStr(filtered[i].v))]
  IN IF Len(filtered) > 0 THEN "?" \o Join(mapped, "&") ELSE ""

(***************************************************************************)
(* makeApiRequest (lines 16-36), up to the `await fetch(...)`.              *)
(***************************************************************************)
RequestUrl(endpoint) == API_BASE_URL \o endpoint

\* Mutant of RequestHeaders: the Authorization header is added whenever the
\* variable is defined, so an empty key is sent as "Bearer ".
RequestHeadersWhenDefined(key) ==
  <<[k |-> "Content-Type", v |-> "application/json"]>>
  \o (IF key.t # "undefined"
      THEN <<[k |-> "Authorization", v |-> "Bearer " \o ToStr(key)]>>
      ELSE <<>>)

RequestHeaders(key) ==
  <<[k |-> "Content-Type", v |-> "application/json"]>>
  \o (IF Truthy(key) THEN <<[k |-> "Authorization", v |-> "Bearer " \o ToStr(key)]>>
      ELSE <<>>)

\* Mutant of FetchRequest: the key is also sent as a query parameter of the
\* url.
FetchRequestKeyInUrl(endpoint, key) ==
  [method |-> "GET",
   url |-> RequestUrl(endpoint)
             \o (IF Truthy(key) THEN "?api_key=" \o ToStr(key) ELSE ""),
   headers |-> RequestHeaders(key)]

FetchRequest(endpoint, key) ==
  [method |-> "GET", url |-> RequestUrl(endpoint), headers |-> RequestHeaders(key)]

NoRequest == [method |-> "", url |-> "", headers |-> <<>>]

\* response.ok
ResponseOk(status) == status >= 200 /\ status <= 299

\* Mutant of ApiFailedMessage: the message leaves the body text out.
ApiFailedMessageStatusOnly(status, errorText) ==
  "API request failed: " \o ToString(status)

\* The Error thrown at line 29 for a response that is not ok.
ApiFailedMessage(status, errorText) ==
  "API request failed: " \o ToString(status) \o " - " \o errorText

\* The Error thrown by the catch block at line 34.
FailedToFetchMessage(url, message) ==
  "Failed to fetch from " \o url \o ": " \o message

(***************************************************************************)
(* The CallTool handler (lines 913-1393).                                   *)
(***************************************************************************)
\* Reading a property of args when args is undefined (V8's TypeError text).
UndefinedReadMessage(key) ==
  "Cannot read properties of undefined (reading '" \o key \o "')"

UnknownToolMessage(name) == "Unknown tool: " \o name

\* Mutant of BuildEndpoint: the caller's bag itself is handed to
\* buildQueryString, instead of an object literal of the declared keys.
BuildEndpointCallerOrder(cs, args) ==
  cs.pre
  \o (CASE cs.arg = "raw" -> ToStr(Get(args, cs.req))
        [] cs.arg = "enc" -> encodeURIComponent(ToStr(Get(args, cs.req)))
        [] OTHER -> "")
  \o cs.post
  \o (IF cs.qkeys = <<>> THEN "" ELSE buildQueryString(args.pairs))

\* Mutant of BuildEndpoint: a case that builds no query string forwards
\* the members of the bag other than its path argument as one.
BuildEndpointForwardsRest(cs, args) ==
  cs.pre
  \o (CASE cs.arg = "raw" -> ToStr(Get(args, cs.req))
        [] cs.arg = "enc" -> encodeURIComponent(ToStr(Get(args, cs.req)))
        [] OTHER -> "")
  \o cs.post
  \o (IF cs.qkeys = <<>>
      THEN buildQueryString(SelectSeq(args.pairs, LAMBDA m : m.k # cs.req))
      ELSE buildQueryString([i \in 1..Len(cs.qkeys) |->
                               [k |-> cs.qkeys[i], v |-> Get(args, cs.qkeys[i])]]))

\* The endpoint a case builds once its guard has passed.
BuildEndpoint(cs, args) ==
  cs.pre
  \o (CASE cs.arg = "raw" -> ToStr(Get(args, cs.req))
        [] cs.arg = "enc" -> encodeURIComponent(ToStr(Get(args, cs.req)))
        [] OTHER -> "")
  \o cs.post
  \o (IF cs.qkeys = <<>> THEN ""
      ELSE buildQueryString([i \in 1..Len(cs.qkeys) |->
                               [k |-> cs.qkeys[i], v |-> Get(args, cs.qkeys[i])]]))

\* The first property of args a case reads ("" when it reads none).
FirstRead(cs) ==
  IF cs.req # "" THEN cs.req
  ELSE IF cs.qkeys # <<>> THEN cs.qkeys[1]
  ELSE ""

\* The synchronous part of the switch for (name, args): either a throw with
\* its message, or the endpoint with which makeApiRequest is called.
SwitchStep(name, args) ==
  LET i == CaseIndex(name) IN
  IF i = 0
  THEN [k |-> "throw", kind |-> "unknown_tool", message |-> UnknownToolMessage(name),
        endpoint |-> ""]
  ELSE LET cs == Cases[i] IN
       IF args.omitted /\ FirstRead(cs) # ""
       THEN [k |-> "throw", kind |-> "type_error",
             message |-> UndefinedReadMessage(FirstRead(cs)), endpoint |-> ""]
       ELSE IF cs.req # "" /\ ~Truthy(Get(args, cs.req))
       THEN [k |-> "throw", kind |-> "validation", message |-> cs.msg, endpoint |-> ""]
       ELSE [k |-> "request", kind |-> "none", message |-> "",
             endpoint |-> BuildEndpoint(cs, args)]

\* Mutant of SuccessEnvelope: the payload is wrapped in a "data" member.
SuccessEnvelopeWrapped(result) ==
  [content |-> <<[type |-> "text",
                  text |-> JSONStringify(JObj(<<[k |-> "data", v |-> result]>>))]>>,
   isError |-> "absent"]

\* The envelope returned at lines 1374-1381.
SuccessEnvelope(result) ==
  [content |-> <<[type |-> "text", text |-> JSONStringify(result)]>>,
   isError |-> "absent"]

\* Mutant of ErrorEnvelope: the text interpolates the error, not its message.
ErrorEnvelopeOfError(message) ==
  [content |-> <<[type |-> "text", text |-> "Error: Error: " \o message]>>,
   isError |-> "true"]

\* The envelope returned by the catch block at lines 1382-1392.
ErrorEnvelope(message) ==
  [content |-> <<[type |-> "text", text |-> "Error: " \o message]>>,
   isError |-> "true"]

NoEnvelope == [content |-> <<>>, isError |-> "absent"]

(***************************************************************************)
(* Inputs of the model: the names and argument bags CallTool is invoked     *)
(* with, and what the remote service and the transport may answer.          *)
(***************************************************************************)
\* The tool names of the README's "Available Tools" section, in its order.
ReadmeTools ==
  <<
     "get_stock_tickers", "get_stock_ticker_info", "get_stock_prices",
     "get_crypto_tickers", "get_crypto_ticker_info", "get_crypto_prices",
     "get_forex_tickers", "get_forex_ticker_info", "get_forex_prices",
     "get_futures_tickers", "get_futures_ticker_info", "get_futures_prices",
     "get_indices_tickers", "get_indices_ticker_info", "get_indices_prices",
     "get_etf_fund_data", "get_etf_holdings", "get_etf_exposure",
     "search_credit_entities", "get_credit_ratings", "get_esg_data",
     "get_company_customers", "get_company_peers", "get_company_suppliers"
  >>

\* Names that no case label matches: those of the README, and a misspelt one.
UnknownNames ==
  { ReadmeTools[i] : i \in 1..Len(ReadmeTools) } \cup { "stocks_ticker_info" }

CallNames == { Cases[i].name : i \in 1..Len(Cases) } \cup UnknownNames

\* The values a JSON argument can take (undefined is an absent member).
ArgValues ==
  { Null, Str(""), Str("NASDAQ"), Str("a/b?c&d=e f"), Num(0), Num(3), Bool(FALSE) }

\* A key no tool declares.
UndeclaredKey == "extra"

\* The keys tried for a name, in order: those its catalog entry declares,
\* then one undeclared key.
ArgKeys(name) ==
  LET entries == { i \in 1..Len(Catalog) : Catalog[i].name = name }
      declared == IF entries = {} THEN <<"ticker">>
                  ELSE Catalog[CHOOSE i \in entries : \A j \in entries : i <= j].props
  IN declared \o <<UndeclaredKey>>

\* The key sequences of length n tried for a name: every choice of n distinct
\* keys, written by the caller in the order of ArgKeys or in the reverse order.
KeyOrders(name, n) ==
  LET keys == ArgKeys(name)
      picks == { f \in [1..n -> 1..Len(keys)] : \A i, j \in 1..n : i < j => f[i] < f[j] }
  IN { [i \in 1..n |-> keys[f[i]]] : f \in picks }
     \cup { [i \in 1..n |-> keys[f[n + 1 - i]]] : f \in picks }

\* response.status of the answers tried.
Statuses == { 200, 404, 503 }

\* response.text() of an answer that is not ok.
ErrorBodies == { "Not Found", "", "{\"error\":\"rate limited\"}" }

\* The payloads response.json() resolves with.
Payloads ==
  { JNull,
    JArr(<<>>),
    JStr("say \"hi\""),
    JObj(<<[k |-> "ticker", v |-> JStr("AAPL")],
           [k |-> "prices", v |-> JArr(<<JNum(1), JBool(TRUE)>>)],
           [k |-> "meta", v |-> JObj(<<>>)]>>) }

\* error.message of a rejected fetch, body read and JSON parse.
TransportMessages == { "fetch failed" }

BodyReadMessages == { "terminated" }

ParseMessages == { "Unexpected token < in JSON at position 0" }

(***************************************************************************)
(* State.  calls[c] is one invocation of the CallTool handler: pc is where  *)
(* it stands ("idle": no invocation, "fetch"/"text"/"json": suspended at    *)
(* the await of that name in makeApiRequest, "done": an envelope was        *)
(* returned, "faulted": the handler's promise rejected).  listed is the     *)
(* tools array of the latest ListTools reply.                               *)
(***************************************************************************)
Idle ==
  [pc |-> "idle", name |-> "", args |-> NoArgs, endpoint |-> "",
   request |-> NoRequest, requests |-> 0, status |-> 0, errorText |-> "",
   result |-> JUndefined, outcome |-> "none", error |-> "", envelope |-> NoEnvelope]

\* Mutant of HandlerCatch: the property reads of the switch stand outside
\* the try block, so their TypeError rejects the handler's promise.
HandlerCatchRethrows(call, kind, message) ==
  IF kind = "type_error"
  THEN [call EXCEPT !.pc = "faulted", !.outcome = kind, !.error = message]
  ELSE [call EXCEPT !.pc = "done", !.outcome = kind, !.error = message,
                    !.envelope = ErrorEnvelope(message)]

\* `catch (error)` at line 1382: the handler returns the error envelope.
HandlerCatch(call, kind, message) ==
  [call EXCEPT !.pc = "done", !.outcome = kind, !.error = message,
               !.envelope = ErrorEnvelope(message)]

\* `return { content: [...] }` at line 1374.
HandlerReturn(call, payload) ==
  [call EXCEPT !.pc = "done", !.outcome = "success", !.result = payload,
               !.envelope = SuccessEnvelope(payload)]

\* Mutant of StartRequest: the case calls makeApiRequest without `await`, so
\* the handler returns at once, serializing the pending promise (an object
\* with no own enumerable property).
StartRequestNoAwait(call, endpoint, key) ==
  [call EXCEPT !.pc = "done", !.endpoint = endpoint,
               !.request = FetchRequest(endpoint, key),
               !.requests = call.requests + 1,
               !.outcome = "success", !.result = JObj(<<>>),
               !.envelope = SuccessEnvelope(JObj(<<>>))]

\* makeApiRequest called from a case: the fetch is issued and awaited.
StartRequest(call, endpoint, key) ==
  [call EXCEPT !.pc = "fetch", !.endpoint = endpoint,
               !.request = FetchRequest(endpoint, key),
               !.requests = call.requests + 1]

\* Mutant of RequestCatch: `url` is a module-level variable, so the catch
\* reads the url written by whichever other call entered makeApiRequest.
RequestCatchSharedUrl(call, kind, message) ==
  LET others == { d \in DOMAIN calls :
                    calls[d].request # NoRequest /\ calls[d].request # call.request }
      url == IF others = {} THEN call.request.url
             ELSE calls[CHOOSE d \in others : TRUE].request.url
  IN [call EXCEPT !.pc = "done", !.args = NoArgs, !.outcome = kind,
                  !.error = FailedToFetchMessage(url, message),
                  !.envelope = ErrorEnvelope(FailedToFetchMessage(url, message))]

\* Mutant of RequestCatch: when reading the body failed, the catch awaits
\* the body once more, a promise that stays pending.
RequestCatchAwaitsAgain(call, kind, message) ==
  IF kind = "body_read"
  THEN [call EXCEPT !.pc = "pending", !.args = NoArgs]
  ELSE [call EXCEPT !.pc = "done", !.args = NoArgs, !.outcome = kind,
                    !.error = FailedToFetchMessage(call.request.url, message),
                    !.envelope =
                      ErrorEnvelope(FailedToFetchMessage(call.request.url, message))]

\* Mutant of RequestCatch: a rejected fetch is attempted once more.
RequestCatchRetry(call, kind, message) ==
  IF kind = "transport" /\ call.requests < 2
  THEN [call EXCEPT !.requests = call.requests + 1]
  ELSE [call EXCEPT !.pc = "done", !.args = NoArgs, !.outcome = kind,
                    !.error = FailedToFetchMessage(call.request.url, message),
                    !.envelope =
                      ErrorEnvelope(FailedToFetchMessage(call.request.url, message))]

\* What a rejected await inside makeApiRequest's try leads to: the catch at
\* line 33 rethrows, and the handler's catch returns the envelope.
RequestCatch(call, kind, message) ==
  HandlerCatch([call EXCEPT !.args = NoArgs], kind,
               FailedToFetchMessage(call.request.url, message))

\* The process before main() has connected the transport.
Starting == [state |-> "starting", code |-> 0]

\* `await server.connect(transport)` has resolved (lines 1399-1401).
Connected == [state |-> "running", code |-> 0]

\* Mutant of ExitedOnStartupError: process.exit() is called without a code.
ExitedWithCodeZero == [state |-> "exited", code |-> 0]

\* `main().catch(...)`: process.exit(1) (lines 1404-1407).
ExitedOnStartupError == [state |-> "exited", code |-> 1]

\* The handlers run once the transport is connected.
Running == process.state = "running"

Init ==
  /\ apiKey \in ApiKeys
  /\ calls = <<Idle>>
  /\ listed = <<>>
  /\ process = Starting

\* main(): the stdio transport is established.
StartServer ==
  /\ process.state = "starting"
  /\ process' = Connected
  /\ UNCHANGED <<apiKey, calls, listed>>

\* main(): server.connect rejects; the catch logs and exits.
StartupFails ==
  /\ process.state = "starting"
  /\ process' = ExitedOnStartupError
  /\ UNCHANGED <<apiKey, calls, listed>>

\* Mutant of ListTools: the reply leaves out the tools that have a call in
\* flight.
ListToolsHidesBusy ==
  /\ Running
  /\ listed' = SelectSeq(Catalog,
                         LAMBDA t : \A c \in DOMAIN calls :
                                      \/ calls[c].pc \notin { "fetch", "text", "json" }
                                      \/ calls[c].name # t.name)
  /\ UNCHANGED <<apiKey, calls, process>>

\* The ListTools handler (lines 67-908).
ListTools ==
  /\ Running
  /\ listed' = Catalog
  /\ UNCHANGED <<apiKey, calls, process>>

\* The handler from its entry to its first await or its return, for the
\* invocation (name, args).
Invoke(name, args, key) ==
  LET call == [Idle EXCEPT !.name = name, !.args = args]
      step == SwitchStep(name, args)
  IN IF step.k = "throw"
     THEN HandlerCatch(call, step.kind, step.message)
     ELSE StartRequest(call, step.endpoint, key)

\* CallTool with the arguments member omitted.
CallToolNoArgs(c) ==
  /\ Running
  /\ calls[c].pc = "idle"
  /\ \E name \in CallNames :
       calls' = [calls EXCEPT ![c] = Invoke(name, NoArgs, apiKey)]
  /\ UNCHANGED <<apiKey, listed, process>>

\* CallTool with an argument bag of up to MaxArgs members.
CallTool(c) ==
  /\ Running
  /\ calls[c].pc = "idle"
  /\ \E name \in CallNames :
       \E n \in 0..MaxArgs :
         \E ks \in KeyOrders(name, n) :
           \E vs \in [1..n -> ArgValues] :
             calls' = [calls EXCEPT ![c] =
                         Invoke(name, Bag([i \in 1..n |-> [k |-> ks[i], v |-> vs[i]]]),
                                apiKey)]
  /\ UNCHANGED <<apiKey, listed, process>>

\* `await fetch(url, ...)` resolves with a response (line 25); the handler
\* goes on to await response.text() or response.json().
FetchResolves(c) ==
  /\ Running
  /\ calls[c].pc = "fetch"
  /\ \E status \in Statuses :
       calls' = [calls EXCEPT ![c] =
                   [@ EXCEPT !.pc = IF ResponseOk(status) THEN "json" ELSE "text",
                             !.status = status, !.args = NoArgs]]
  /\ UNCHANGED <<apiKey, listed, process>>

\* `await fetch(url, ...)` rejects: no response was received.
FetchRejects(c) ==
  /\ Running
  /\ calls[c].pc = "fetch"
  /\ \E m \in TransportMessages :
       calls' = [calls EXCEPT ![c] = RequestCatch(@, "transport", m)]
  /\ UNCHANGED <<apiKey, listed, process>>

\* `await response.text()` resolves (line 28); line 29 throws.
TextResolves(c) ==
  /\ Running
  /\ calls[c].pc = "text"
  /\ \E t \in ErrorBodies :
       calls' = [calls EXCEPT ![c] =
                   RequestCatch([@ EXCEPT !.errorText = t], "request_failed",
                                ApiFailedMessage(@.status, t))]
  /\ UNCHANGED <<apiKey, listed, process>>

\* `await response.text()` rejects: the body could not be read.
TextRejects(c) ==
  /\ Running
  /\ calls[c].pc = "text"
  /\ \E m \in BodyReadMessages :
       calls' = [calls EXCEPT ![c] = RequestCatch(@, "body_read", m)]
  /\ UNCHANGED <<apiKey, listed, process>>

\* `await response.json()` resolves (line 32) with the parsed payload.
JsonResolves(c) ==
  /\ Running
  /\ calls[c].pc = "json"
  /\ \E p \in Payloads :
       calls' = [calls EXCEPT ![c] = HandlerReturn(@, p)]
  /\ UNCHANGED <<apiKey, listed, process>>

\* `await response.json()` rejects: the body is not JSON, or not readable.
JsonRejects(c) ==
  /\ Running
  /\ calls[c].pc = "json"
  /\ \E m \in ParseMessages :
       calls' = [calls EXCEPT ![c] = RequestCatch(@, "parse", m)]
  /\ UNCHANGED <<apiKey, listed, process>>

\* The reply has been sent to the host; the next invocation may begin.
Release(c) ==
  /\ Running
  /\ calls[c].pc \in { "done", "faulted" }
  /\ calls' = [calls EXCEPT ![c] = Idle]
  /\ UNCHANGED <<apiKey, listed, process>>

(***************************************************************************)
(* Several invocations in flight at once. The host may send a CallTool      *)
(* request before the previous one's network wait has ended, so the         *)
(* handler's frames coexist; each slot of calls is one frame. The           *)
(* invocations are drawn from a small fixed set: one rejected by a guard,   *)
(* one with an unknown name, two that reach different endpoints.            *)
(***************************************************************************)
MaxInFlight == 2

ConcurrentInvocations ==
  { [name |-> "credit_ratings", args |-> Bag(<<>>)],
    [name |-> "credit_ratings", args |-> Bag(<<[k |-> "id", v |-> Str("NASDAQ")]>>)],
    [name |-> "stocks_tickers", args |-> Bag(<<[k |-> "country", v |-> Num(3)]>>)],
    [name |-> "get_stock_tickers", args |-> NoArgs] }

InitConcurrent ==
  /\ apiKey \in ApiKeys
  /\ calls = [c \in 1..MaxInFlight |-> Idle]
  /\ listed = <<>>
  /\ process = Starting

\* CallTool entered while other invocations may be suspended.
CallToolConcurrent(c) ==
  /\ Running
  /\ calls[c].pc = "idle"
  /\ \E inv \in ConcurrentInvocations :
       calls' = [calls EXCEPT ![c] = Invoke(inv.name, inv.args, apiKey)]
  /\ UNCHANGED <<apiKey, listed, process>>

NextConcurrent ==
  \/ StartServer
  \/ StartupFails
  \/ ListTools
  \/ \E c \in DOMAIN calls : CallToolConcurrent(c)
  \/ \E c \in DOMAIN calls : FetchResolves(c)
  \/ \E c \in DOMAIN calls : FetchRejects(c)
  \/ \E c \in DOMAIN calls : TextResolves(c)
  \/ \E c \in DOMAIN calls : TextRejects(c)
  \/ \E c \in DOMAIN calls : JsonResolves(c)
  \/ \E c \in DOMAIN calls : JsonRejects(c)
  \/ \E c \in DOMAIN calls : Release(c)

SpecConcurrent == InitConcurrent /\ [][NextConcurrent]_vars

(***************************************************************************)
(* The transport settles every request: a pending fetch, body read or       *)
(* parse is eventually resolved or rejected, and the event loop then runs   *)
(* the continuation of the awaiting handler. One frame is followed, since   *)
(* the progress of a call does not depend on the other frames.              *)
(***************************************************************************)
Settles(c) ==
  \/ FetchResolves(c)
  \/ FetchRejects(c)
  \/ TextResolves(c)
  \/ TextRejects(c)
  \/ JsonResolves(c)
  \/ JsonRejects(c)

SpecSettling ==
  /\ Init
  /\ [][NextConcurrent]_vars
  /\ WF_vars(Settles(1))

(***************************************************************************)
(* Two runs of the server side by side, alike in everything but the value   *)
(* of API_KEY: frame 1 is an invocation in the run configured with apiKey,  *)
(* frame 2 the same invocation in the run configured with OtherKey(apiKey). *)
(* Both runs receive the same requests from the host and the same answers   *)
(* from the remote service, so the two frames move together.                *)
(***************************************************************************)
OtherKey(key) ==
  CASE key = Undef -> Str("")
    [] key = Str("") -> Str("sk-live-KEY")
    [] OTHER -> Undef

InitTwoRuns ==
  /\ apiKey \in ApiKeys
  /\ calls = <<Idle, Idle>>
  /\ listed = <<>>
  /\ process = Starting

\* The same CallTool request reaches both runs.
CallToolInBothRuns ==
  /\ Running
  /\ calls[1].pc = "idle" /\ calls[2].pc = "idle"
  /\ \E inv \in ConcurrentInvocations :
       calls' = <<Invoke(inv.name, inv.args, apiKey),
                  Invoke(inv.name, inv.args, OtherKey(apiKey))>>
  /\ UNCHANGED <<apiKey, listed, process>>

\* `await fetch` resolves with the same status in both runs.
FetchResolvesInBothRuns ==
  /\ Running
  /\ calls[1].pc = "fetch" /\ calls[2].pc = "fetch"
  /\ \E status \in Statuses :
       calls' = [c \in 1..2 |->
                   [calls[c] EXCEPT !.pc = IF ResponseOk(status) THEN "json" ELSE "text",
                                    !.status = status, !.args = NoArgs]]
  /\ UNCHANGED <<apiKey, listed, process>>

\* `await fetch` rejects with the same cause in both runs.
FetchRejectsInBothRuns ==
  /\ Running
  /\ calls[1].pc = "fetch" /\ calls[2].pc = "fetch"
  /\ \E m \in TransportMessages :
       calls' = [c \in 1..2 |-> RequestCatch(calls[c], "transport", m)]
  /\ UNCHANGED <<apiKey, listed, process>>

\* `await response.text()` resolves with the same body in both runs.
TextResolvesInBothRuns ==
  /\ Running
  /\ calls[1].pc = "text" /\ calls[2].pc = "text"
  /\ \E t \in ErrorBodies :
       calls' = [c \in 1..2 |->
                   RequestCatch([calls[c] EXCEPT !.errorText = t], "request_failed",
                                ApiFailedMessage(calls[c].status, t))]
  /\ UNCHANGED <<apiKey, listed, process>>

\* `await response.text()` rejects with the same cause in both runs.
TextRejectsInBothRuns ==
  /\ Running
  /\ calls[1].pc = "text" /\ calls[2].pc = "text"
  /\ \E m \in BodyReadMessages :
       calls' = [c \in 1..2 |-> RequestCatch(calls[c], "body_read", m)]
  /\ UNCHANGED <<apiKey, listed, process>>

\* `await response.json()` resolves with the same payload in both runs.
JsonResolvesInBothRuns ==
  /\ Running
  /\ calls[1].pc = "json" /\ calls[2].pc = "json"
  /\ \E p \in Payloads :
       calls' = [c \in 1..2 |-> HandlerReturn(calls[c], p)]
  /\ UNCHANGED <<apiKey, listed, process>>

\* `await response.json()` rejects with the same cause in both runs.
JsonRejectsInBothRuns ==
  /\ Running
  /\ calls[1].pc = "json" /\ calls[2].pc = "json"
  /\ \E m \in ParseMessages :
       calls' = [c \in 1..2 |-> RequestCatch(calls[c], "parse", m)]
  /\ UNCHANGED <<apiKey, listed, process>>

\* Both runs have sent their reply.
ReleaseInBothRuns ==
  /\ Running
  /\ calls[1].pc \in { "done", "faulted" } /\ calls[2].pc \in { "done", "faulted" }
  /\ calls' = <<Idle, Idle>>
  /\ UNCHANGED <<apiKey, listed, process>>

NextTwoRuns ==
  \/ StartServer
  \/ StartupFails
  \/ ListTools
  \/ CallToolInBothRuns
  \/ FetchResolvesInBothRuns
  \/ FetchRejectsInBothRuns
  \/ TextResolvesInBothRuns
  \/ TextRejectsInBothRuns
  \/ JsonResolvesInBothRuns
  \/ JsonRejectsInBothRuns
  \/ ReleaseInBothRuns

SpecTwoRuns == InitTwoRuns /\ [][NextTwoRuns]_vars

Next ==
  \/ StartServer
  \/ StartupFails
  \/ ListTools
  \/ \E c \in DOMAIN calls : CallTool(c)
  \/ \E c \in DOMAIN calls : CallToolNoArgs(c)
  \/ \E c \in DOMAIN calls : FetchResolves(c)
  \/ \E c \in DOMAIN calls : FetchRejects(c)
  \/ \E c \in DOMAIN calls : TextResolves(c)
  \/ \E c \in DOMAIN calls : TextRejects(c)
  \/ \E c \in DOMAIN calls : JsonResolves(c)
  \/ \E c \in DOMAIN calls : JsonRejects(c)
  \/ \E c \in DOMAIN calls : Release(c)

Spec == Init /\ [][Next]_vars

(***************************************************************************)
(* Vocabulary of the properties.                                            *)
(***************************************************************************)
Slots == DOMAIN calls

\* The names the catalog lists.
CatalogNames == { Catalog[i].name : i \in 1..Len(Catalog) }

\* The required parameters the catalog declares under each of its names.
RequiredByName ==
  [name \in CatalogNames |->
     UNION { { Catalog[i].required[j] : j \in 1..Len(Catalog[i].required) } :
               i \in { i \in 1..Len(Catalog) : Catalog[i].name = name } }]

RequiredOf(name) == IF name \in CatalogNames THEN RequiredByName[name] ELSE {}

\* The declared parameters of each name, in the order of its (first) schema.
DeclaredByName ==
  [name \in CatalogNames |->
     Catalog[CHOOSE i \in 1..Len(Catalog) :
               /\ Catalog[i].name = name
               /\ \A j \in 1..(i - 1) : Catalog[j].name # name].props]

DeclaredOf(name) == DeclaredByName[name]

\* The call still holds the argument bag it was invoked with: it has not
\* resumed from an await yet.
HoldsArgs(call) ==
  \/ call.pc = "fetch"
  \/ call.pc = "done" /\ call.outcome \in { "unknown_tool", "type_error", "validation" }

\* The call was dispatched: makeApiRequest was entered for it.
Dispatched(call) ==
  \/ call.pc \in { "fetch", "text", "json" }
  \/ call.pc = "done"
     /\ call.outcome \in { "success", "transport", "request_failed", "body_read", "parse" }

EnvelopeText(call) == call.envelope.content[1].text

(***************************************************************************)
(* C1: every CallTool invocation, whatever the name, the argument bag and   *)
(* the remote outcome, ends by returning an envelope whose content is       *)
(* exactly one block of type "text"; the handler never rejects (no          *)
(* invocation is ever in the faulted state).                                *)
(***************************************************************************)
C1_AlwaysOneTextBlock ==
  \A c \in Slots :
    /\ calls[c].pc # "faulted"
    /\ calls[c].pc = "done" =>
         /\ Len(calls[c].envelope.content) = 1
         /\ calls[c].envelope.content[1].type = "text"
         /\ calls[c].outcome \in { "success", "unknown_tool", "type_error", "validation",
                                   "transport", "request_failed", "body_read", "parse" }

\* A call that read a property of an omitted argument bag has returned an
\* error envelope.
C1_Witness ==
  \E c \in Slots :
    /\ calls[c].pc = "done"
    /\ calls[c].outcome = "type_error"
    /\ calls[c].envelope.isError = "true"
    /\ Len(calls[c].envelope.content) = 1

(***************************************************************************)
(* C2: a call of a tool whose catalog definition lists a required parameter *)
(* in which that parameter is absent (the member is missing, or the whole   *)
(* bag is omitted) or the empty string has returned an envelope with        *)
(* isError true and has issued no network request.                          *)
(***************************************************************************)
C2_MissingRequiredRejectedOffline ==
  \A c \in Slots :
    \A r \in RequiredOf(calls[c].name) :
      ( /\ HoldsArgs(calls[c])
        /\ \/ calls[c].args.omitted
           \/ Get(calls[c].args, r) \in { Undef, Str("") } )
      => /\ calls[c].pc = "done"
         /\ calls[c].envelope.isError = "true"
         /\ calls[c].requests = 0
         /\ calls[c].request = NoRequest

\* credit_ratings called with id: "" was rejected without a request.
C2_Witness ==
  \E c \in Slots :
    /\ calls[c].name = "credit_ratings"
    /\ ~calls[c].args.omitted
    /\ Get(calls[c].args, "id") = Str("")
    /\ calls[c].pc = "done"
    /\ calls[c].envelope.isError = "true"
    /\ calls[c].requests = 0

(***************************************************************************)
(* C3: a call whose name is not in the catalog has returned an error        *)
(* envelope whose text names the tool ("Error: Unknown tool: <name>"), and  *)
(* nothing was dispatched for it: no endpoint was built and no request was  *)
(* issued.                                                                  *)
(***************************************************************************)
C3_UnknownToolNeverDispatched ==
  \A c \in Slots :
    (calls[c].pc # "idle" /\ calls[c].name \notin CatalogNames)
    => /\ calls[c].pc = "done"
       /\ calls[c].outcome = "unknown_tool"
       /\ calls[c].envelope.isError = "true"
       /\ EnvelopeText(calls[c]) = "Error: Unknown tool: " \o calls[c].name
       /\ Contains(EnvelopeText(calls[c]), calls[c].name)
       /\ calls[c].endpoint = ""
       /\ calls[c].requests = 0
       /\ calls[c].request = NoRequest

\* An unknown name called with a ticker has been answered with the error.
C3_Witness ==
  \E c \in Slots :
    /\ calls[c].pc = "done"
    /\ calls[c].name = "get_stock_tickers"
    /\ Get(calls[c].args, "ticker") = Str("NASDAQ")
    /\ EnvelopeText(calls[c]) = "Error: Unknown tool: get_stock_tickers"

(***************************************************************************)
(* C4: the sequence ListTools returns holds one definition per tool name:   *)
(* no two of its entries have the same name.                                *)
(***************************************************************************)
C4_ListToolsNamesUnique ==
  \A i, j \in 1..Len(listed) : i # j => listed[i].name # listed[j].name

(***************************************************************************)
(* Reading a built endpoint back: the query string is what starts at the    *)
(* first "?", its pairs are separated by "&", and a pair's key ends at its  *)
(* first "=".                                                               *)
(***************************************************************************)
\* The position of the first occurrence of ch in s at or after i; 0 when
\* there is none.
RECURSIVE IndexFrom(_, _, _)
IndexFrom(s, ch, i) ==
  IF i > Len(s) THEN 0
  ELSE IF CharAt(s, i) = ch THEN i
  ELSE IndexFrom(s, ch, i + 1)

IndexOf(s, ch) == IndexFrom(s, ch, 1)

\* The pieces of s between the occurrences of ch.
RECURSIVE SplitOn(_, _)
SplitOn(s, ch) ==
  LET at == IndexOf(s, ch)
  IN IF at = 0 THEN <<s>>
     ELSE <<SubSeq(s, 1, at - 1)>> \o SplitOn(RestFrom(s, at + 1), ch)

\* The query string of an endpoint, "?" included; "" when it has none.
QueryOf(endpoint) ==
  LET at == IndexOf(endpoint, "?")
  IN IF at = 0 THEN "" ELSE RestFrom(endpoint, at)

\* The path of an endpoint: what precedes its query string.
PathOf(endpoint) ==
  LET at == IndexOf(endpoint, "?")
  IN IF at = 0 THEN endpoint ELSE SubSeq(endpoint, 1, at - 1)

\* The key of one key=value pair of a query string.
KeyOfPair(pair) ==
  LET at == IndexOf(pair, "=")
  IN IF at = 0 THEN pair ELSE SubSeq(pair, 1, at - 1)

\* The keys of the query string of an endpoint, in the order they appear.
QueryKeys(endpoint) ==
  LET query == QueryOf(endpoint)
  IN IF query = "" THEN <<>>
     ELSE LET pairs == SplitOn(RestFrom(query, 2), "&")
          IN [i \in 1..Len(pairs) |-> KeyOfPair(pairs[i])]

\* The position of key in the sequence keys; 0 when it is not in it.
PositionIn(keys, key) ==
  IF \E i \in 1..Len(keys) : keys[i] = key
  THEN CHOOSE i \in 1..Len(keys) : keys[i] = key
  ELSE 0

\* The name's tool takes its parameters in a query string: it declares a
\* parameter that is not required.
OptionalParamNames ==
  { name \in CatalogNames :
      \E i \in 1..Len(DeclaredOf(name)) : DeclaredOf(name)[i] \notin RequiredOf(name) }

HasOptionalParams(name) == name \in OptionalParamNames

\* The name's case hands keys to buildQueryString.
QueryBuildingNames ==
  { Cases[i].name : i \in { i \in 1..Len(Cases) : Cases[i].qkeys # <<>> } }

BuildsQuery(name) == name \in QueryBuildingNames

\* A value survives the filter of the reference.
Survives(v) == v.t # "undefined" /\ v.t # "null" /\ ~(v.t = "string" /\ v.s = "")

\* The reference query string for the declared keys from position i on:
\* the surviving ones as key=percent-encoded(value), each preceded by sep.
RECURSIVE ReferencePairs(_, _, _, _)
ReferencePairs(keys, args, i, first) ==
  IF i > Len(keys) THEN ""
  ELSE IF Survives(Get(args, keys[i]))
  THEN (IF first THEN "?" ELSE "&")
       \o keys[i] \o "=" \o encodeURIComponent(ToStr(Get(args, keys[i])))
       \o ReferencePairs(keys, args, i + 1, FALSE)
  ELSE ReferencePairs(keys, args, i + 1, first)

ReferenceQuery(name, args) == ReferencePairs(DeclaredOf(name), args, 1, TRUE)

(***************************************************************************)
(* C5: for every tool with optional query parameters and every argument     *)
(* bag, the query string of the built endpoint equals the reference: the    *)
(* declared parameters whose value is not undefined, null or "", each as    *)
(* key=percent-encoded(value), joined by "&" and prefixed by "?"; when none *)
(* survives the endpoint has no "?" at all (crypto_tickers with {} builds   *)
(* exactly crypto/tickers).                                                 *)
(***************************************************************************)
C5_QueryStringMatchesReference ==
  \A c \in Slots :
    ( /\ calls[c].pc = "fetch"
      /\ ~calls[c].args.omitted
      /\ HasOptionalParams(calls[c].name) )
    => /\ QueryOf(calls[c].endpoint) = ReferenceQuery(calls[c].name, calls[c].args)
       /\ CountChar(calls[c].endpoint, "?")
            = (IF \E i \in 1..Len(DeclaredOf(calls[c].name)) :
                    Survives(Get(calls[c].args, DeclaredOf(calls[c].name)[i]))
               THEN 1 ELSE 0)
       /\ (calls[c].name = "crypto_tickers" /\ calls[c].args.pairs = <<>>)
            => calls[c].endpoint = "crypto/tickers"
       /\ (calls[c].name = "crypto_tickers"
             /\ Get(calls[c].args, "type") = Str("a/b?c&d=e f"))
            => calls[c].endpoint = "crypto/tickers?type=a%2Fb%3Fc%26d%3De%20f"

\* stocks_tickers was dispatched with country: null (filtered out) and an
\* exchange that needs percent-encoding.
C5_Witness ==
  \E c \in Slots :
    /\ calls[c].pc = "fetch"
    /\ calls[c].name = "stocks_tickers"
    /\ Get(calls[c].args, "country") = Null
    /\ Get(calls[c].args, "exchange") = Str("a/b?c&d=e f")
    /\ calls[c].endpoint = "stocks/tickers?exchange=a%2Fb%3Fc%26d%3De%20f"

(***************************************************************************)
(* C6: for every tool whose case builds a query string, the keys of that   *)
(* query string are declared parameters of the tool and appear in the order *)
(* in which its catalog schema declares them, whatever the order in which   *)
(* the caller wrote the members of the bag (stocks_tickers with country and *)
(* exchange always builds country=...&exchange=...).                        *)
(***************************************************************************)
C6_QueryKeysInDeclaredOrder ==
  \A c \in Slots :
    (calls[c].pc = "fetch" /\ BuildsQuery(calls[c].name))
    => LET keys == QueryKeys(calls[c].endpoint)
           declared == DeclaredOf(calls[c].name)
       IN /\ \A i \in 1..Len(keys) : PositionIn(declared, keys[i]) # 0
          /\ \A i, j \in 1..Len(keys) :
               i < j => PositionIn(declared, keys[i]) < PositionIn(declared, keys[j])
          /\ (calls[c].name = "stocks_tickers"
                /\ Get(calls[c].args, "country") = Str("NASDAQ")
                /\ Get(calls[c].args, "exchange") = Str("NASDAQ"))
               => calls[c].endpoint = "stocks/tickers?country=NASDAQ&exchange=NASDAQ"

\* The caller wrote exchange before country; the endpoint has country first.
C6_Witness ==
  \E c \in Slots :
    /\ calls[c].pc = "fetch"
    /\ calls[c].name = "stocks_tickers"
    /\ Len(calls[c].args.pairs) = 2
    /\ calls[c].args.pairs[1].k = "exchange"
    /\ calls[c].args.pairs[2].k = "country"
    /\ QueryKeys(calls[c].endpoint) = <<"country", "exchange">>

(***************************************************************************)
(* C7: a call that was dispatched has issued exactly one outbound request,  *)
(* whatever its outcome (success, non-success status, unreadable or         *)
(* unparseable body, transport failure): no failure causes a second         *)
(* attempt, and a call's request count is always 0 or 1.                    *)
(***************************************************************************)
C7_ExactlyOneRequestPerDispatch ==
  \A c \in Slots :
    /\ calls[c].requests \in { 0, 1 }
    /\ Dispatched(calls[c]) => calls[c].requests = 1
    /\ (calls[c].pc # "idle" /\ ~Dispatched(calls[c])) => calls[c].requests = 0

\* A call whose fetch was rejected has completed with one request issued.
C7_Witness ==
  \E c \in Slots :
    /\ calls[c].pc = "done"
    /\ calls[c].outcome = "transport"
    /\ calls[c].requests = 1

ExpectedRendering(payload) ==
  CASE payload = JNull -> "null"
    [] payload = JArr(<<>>) -> "[]"
    [] payload = JStr("say \"hi\"") -> "\"say \\\"hi\\\"\""
    [] OTHER ->
         "{\n  \"ticker\": \"AAPL\",\n  \"prices\": [\n    1,\n    true\n  ],\n  \"meta\": {}\n}"

C9_SuccessEnvelopeIsPrettyPayload ==
  \A c \in Slots :
    /\ (calls[c].pc = "done" /\ ResponseOk(calls[c].status))
       => calls[c].outcome \in { "success", "parse" }
    /\ (calls[c].pc = "done" /\ calls[c].outcome = "success")
       => /\ ResponseOk(calls[c].status)
          /\ calls[c].result \in Payloads
          /\ calls[c].envelope.isError \in { "absent", "false" }
          /\ Len(calls[c].envelope.content) = 1
          /\ calls[c].envelope.content[1].type = "text"
          /\ EnvelopeText(calls[c]) = ExpectedRendering(calls[c].result)

\* A call answered 200 with the nested object payload has returned it.
C9_Witness ==
  \E c \in Slots :
    /\ calls[c].pc = "done"
    /\ calls[c].outcome = "success"
    /\ calls[c].status = 200
    /\ calls[c].result.t = "object"
    /\ calls[c].envelope.isError = "absent"

(***************************************************************************)
(* C10: in every completed call isError is true exactly when the call ended *)
(* in an error outcome, and then the envelope text is "Error: " followed by *)
(* the error's message; for a validation error the message is the fixed     *)
(* text of the tool's guard with nothing added (credit_ratings with {}      *)
(* yields exactly "Error: Organization ID is required").                    *)
(***************************************************************************)
C10_ErrorFlagAndText ==
  \A c \in Slots :
    calls[c].pc = "done"
    => /\ (calls[c].envelope.isError = "true") <=> (calls[c].outcome # "success")
       /\ calls[c].envelope.isError = "true"
            => EnvelopeText(calls[c]) = "Error: " \o calls[c].error
       /\ calls[c].outcome = "validation"
            => EnvelopeText(calls[c]) = "Error: " \o Cases[CaseIndex(calls[c].name)].msg
       /\ (calls[c].name = "credit_ratings" /\ calls[c].args = Bag(<<>>))
            => EnvelopeText(calls[c]) = "Error: Organization ID is required"
       /\ calls[c].outcome = "transport"
            => \E m \in TransportMessages :
                 EnvelopeText(calls[c])
                   = "Error: Failed to fetch from " \o calls[c].request.url \o ": " \o m

\* credit_ratings called with {} has returned the fixed validation text.
C10_Witness ==
  \E c \in Slots :
    /\ calls[c].pc = "done"
    /\ calls[c].name = "credit_ratings"
    /\ calls[c].args = Bag(<<>>)
    /\ calls[c].outcome = "validation"
    /\ calls[c].envelope.isError = "true"
    /\ EnvelopeText(calls[c]) = "Error: Organization ID is required"


\* The values the request carries under a header name, in order.
HeaderValues(headers, k) ==
  LET hit == SelectSeq(headers, LAMBDA h : h.k = k)
  IN [i \in 1..Len(hit) |-> hit[i].v]

\* The process was given a non-empty API key.
KeyConfigured == apiKey.t = "string" /\ apiKey.s # ""

(***************************************************************************)
(* C11: every request handed to fetch uses the GET method against the base *)
(* URL followed by the built endpoint, and carries exactly one             *)
(* Content-Type header, "application/json"; it carries an Authorization    *)
(* header, "Bearer " followed by the key, exactly when the configured API  *)
(* key is a non-empty string.                                              *)
(***************************************************************************)
C11_RequestShape ==
  \A c \in Slots :
    calls[c].requests > 0
    => LET req == calls[c].request
       IN /\ req.method = "GET"
          /\ req.url = "https://api.axionquant.com/" \o calls[c].endpoint
          /\ HeaderValues(req.headers, "Content-Type") = <<"application/json">>
          /\ HeaderValues(req.headers, "Authorization")
               = (IF KeyConfigured THEN <<"Bearer " \o apiKey.s>> ELSE <<>>)

\* A request is in flight while the configured key is the empty string, and
\* it carries no Authorization header.
C11_Witness ==
  \E c \in Slots :
    /\ calls[c].pc = "fetch"
    /\ apiKey = Str("")
    /\ calls[c].request.method = "GET"
    /\ HeaderValues(calls[c].request.headers, "Authorization") = <<>>

\* The outcomes of a call that ended before makeApiRequest was entered.
OfflineOutcomes == { "unknown_tool", "type_error", "validation" }

\* The outcomes of a call that ended inside or after makeApiRequest.
RemoteOutcomes == { "success", "transport", "request_failed", "body_read", "parse" }

\* The moves of one call between two successive states. Received and
\* Validated lie inside the one synchronous run of the handler up to its
\* first await, so a step shows the call before it and either Dispatched or
\* Completed after it.
LifecycleStep(a, b) ==
  \/ b = a
  \/ /\ a.pc = "idle"
     /\ b.pc = "fetch"
     /\ b.requests = 1
  \/ /\ a.pc = "idle"
     /\ b.pc = "done"
     /\ b.outcome \in OfflineOutcomes
     /\ b.requests = 0
     /\ b.envelope.isError = "true"
  \/ /\ a.pc = "fetch"
     /\ b.pc \in { "text", "json" }
  \/ /\ a.pc \in { "fetch", "text", "json" }
     /\ b.pc = "done"
     /\ b.outcome \in RemoteOutcomes
     /\ b.requests = 1
     /\ (b.outcome = "success") => (a.pc = "json")
  \/ /\ a.pc = "done"
     /\ b = Idle

(***************************************************************************)
(* C12: a call moves only from reception to Dispatched (one request        *)
(* issued) or, when the name lookup or a guard throws, straight to         *)
(* Completed(Error) with no request issued; from Dispatched it stays       *)
(* Dispatched or moves to Completed; Completed(Success) is entered only    *)
(* from Dispatched, after response.json(); and a completed call never      *)
(* changes again: the only step after completion is the handler's frame    *)
(* being dropped once the reply is sent.                                   *)
(***************************************************************************)
C12_LifecycleEdges ==
  [][\A c \in DOMAIN calls : LifecycleStep(calls[c], calls'[c])]_vars

\* A call has completed with the validation error without any request.
C12_Witness ==
  \E c \in Slots :
    /\ calls[c].pc = "done"
    /\ calls[c].outcome = "validation"
    /\ calls[c].requests = 0
    /\ calls[c].request = NoRequest

\* What a call's record must be, given nothing but its own name, its own
\* arguments, its own request and the response to that request.
OwnOutcome(call) ==
  /\ (call.pc = "fetch" \/ (call.pc = "done" /\ call.outcome \in OfflineOutcomes))
       => call = Invoke(call.name, call.args, apiKey)
  /\ call.requests > 0 => call.request = FetchRequest(call.endpoint, apiKey)
  /\ call.pc = "done" =>
       CASE call.outcome = "success" ->
              call.envelope = SuccessEnvelope(call.result)
         [] call.outcome = "request_failed" ->
              EnvelopeText(call)
                = "Error: Failed to fetch from " \o call.request.url
                    \o ": API request failed: " \o ToString(call.status)
                    \o " - " \o call.errorText
         [] call.outcome = "transport" ->
              \E m \in TransportMessages :
                EnvelopeText(call)
                  = "Error: Failed to fetch from " \o call.request.url \o ": " \o m
         [] call.outcome = "body_read" ->
              \E m \in BodyReadMessages :
                EnvelopeText(call)
                  = "Error: Failed to fetch from " \o call.request.url \o ": " \o m
         [] call.outcome = "parse" ->
              \E m \in ParseMessages :
                EnvelopeText(call)
                  = "Error: Failed to fetch from " \o call.request.url \o ": " \o m
         [] OTHER -> TRUE

\* A step is taken by one call: the records of all other calls are left as
\* they were, and a suspended call keeps its name, endpoint and request.
OwnStep(c) ==
  calls'[c] # calls[c]
  => /\ \A d \in DOMAIN calls : d # c => calls'[d] = calls[d]
     /\ calls[c].pc \in { "fetch", "text", "json" }
          => /\ calls'[c].name = calls[c].name
             /\ calls'[c].endpoint = calls[c].endpoint
             /\ calls'[c].request = calls[c].request

(***************************************************************************)
(* C13: with several invocations in flight and their network waits ending  *)
(* in any order, every invocation's endpoint, request and returned         *)
(* envelope are those given by its own name and arguments and by the       *)
(* response to its own request; and a step of one invocation changes       *)
(* nothing of any other.                                                   *)
(***************************************************************************)
C13_CallsAreIsolated ==
  /\ [](\A c \in DOMAIN calls : OwnOutcome(calls[c]))
  /\ [][\A c \in DOMAIN calls : OwnStep(c)]_vars

\* Two invocations for different endpoints overlap, and the one for
\* stocks/tickers has failed while the one for credit/ratings still waits.
C13_Witness ==
  \E c, d \in Slots :
    /\ calls[c].pc = "fetch"
    /\ calls[c].endpoint = "credit/ratings/NASDAQ"
    /\ calls[d].pc = "done"
    /\ calls[d].outcome = "transport"
    /\ calls[d].endpoint = "stocks/tickers?country=3"

\* The names the README documents as the server's tools.
ReadmeToolNames == { ReadmeTools[i] : i \in 1..Len(ReadmeTools) }

(***************************************************************************)
(* C14: every tool name the README lists under "Available Tools" is a tool *)
(* of the server: a ListTools reply contains an entry of that name, and a  *)
(* CallTool invocation of that name is not answered with the unknown-tool  *)
(* error.                                                                  *)
(***************************************************************************)
C14_ReadmeToolsAreServed ==
  /\ listed # <<>>
       => \A n \in ReadmeToolNames : \E i \in 1..Len(listed) : listed[i].name = n
  /\ \A c \in Slots :
       (calls[c].pc = "done" /\ calls[c].name \in ReadmeToolNames)
         => calls[c].outcome # "unknown_tool"

\* The case labels of the switch.
CaseLabels == { Cases[i].name : i \in 1..Len(Cases) }

\* The cases labelled with each name the catalog or the switch knows.
CasesLabelled ==
  [n \in CatalogNames \cup CaseLabels |-> { i \in 1..Len(Cases) : Cases[i].name = n }]

\* The switch selects a case for every name of the catalog.
CatalogIsHandled == \A i \in 1..Len(Catalog) : CaseIndex(Catalog[i].name) # 0

(***************************************************************************)
(* C15: the switch of CallTool and the catalog of ListTools name the same  *)
(* tools. Every name of a ListTools reply selects a case; a call is        *)
(* answered with the unknown-tool error exactly when its name is not in    *)
(* the catalog; and each name labels exactly one case, whose template is   *)
(* the one a dispatched call's endpoint is built from.                     *)
(***************************************************************************)
C15_SwitchMirrorsCatalog ==
  /\ listed # <<>> => (listed = Catalog /\ CatalogIsHandled)
  /\ \A c \in Slots :
       calls[c].pc # "idle"
       => LET name == calls[c].name
          IN /\ (calls[c].pc = "done" /\ calls[c].outcome = "unknown_tool")
                  <=> name \notin CatalogNames
             /\ name \in CatalogNames
                  => /\ Cardinality(CasesLabelled[name]) = 1
                     /\ calls[c].pc = "fetch"
                          => \E i \in CasesLabelled[name] :
                               calls[c].endpoint = BuildEndpoint(Cases[i], calls[c].args)

\* After a ListTools reply, a call of the name in the catalog's last entry
\* has been dispatched to that name's endpoint.
C15_Witness ==
  \E c \in Slots :
    /\ listed # <<>>
    /\ calls[c].pc = "fetch"
    /\ calls[c].name = listed[Len(listed)].name
    /\ calls[c].endpoint = "stocks/NASDAQ/prices"

(***************************************************************************)
(* C16: the process is in the exited state only through a failure to       *)
(* connect the transport at startup, and then its exit code is not zero:   *)
(* an exited process never ran a handler. Once the transport is connected, *)
(* no ListTools or CallTool step, whatever its outcome, leaves the running *)
(* state.                                                                  *)
(***************************************************************************)
C16_ExitOnlyAtStartup ==
  /\ [](process.state = "exited"
          => /\ process.code # 0
             /\ listed = <<>>
             /\ \A c \in DOMAIN calls : calls[c] = Idle)
  /\ [][process.state = "running" => process'.state = "running"]_vars
  /\ [][process'.state = "exited" => process.state \in { "starting", "exited" }]_vars

\* The server is running after a ListTools reply and a call that ended with
\* a transport error.
C16_Witness ==
  /\ process.state = "running"
  /\ listed # <<>>
  /\ \E c \in Slots : calls[c].pc = "done" /\ calls[c].outcome = "transport"

(***************************************************************************)
(* C17: ListTools is read-only. Its reply is the same sequence of tool     *)
(* definitions, in the same order, whatever ListTools and CallTool         *)
(* invocations preceded it or are in flight; the step that produces a      *)
(* reply changes no call (so it issues no request) and nothing else of the *)
(* state; and it cannot fail: a running server can always answer it.       *)
(***************************************************************************)
C17_ListToolsReadOnly ==
  /\ [](listed # <<>> => listed = Catalog)
  /\ [](Running => ENABLED ListTools)
  /\ [][listed' # listed
          => /\ listed' = Catalog
             /\ calls' = calls
             /\ apiKey' = apiKey
             /\ process' = process]_vars

\* ListTools has replied, and a call is waiting for its response.
C17_Witness ==
  /\ listed = Catalog
  /\ \E c \in Slots : calls[c].pc = "json" /\ calls[c].name = "stocks_tickers"

\* The call is suspended at an await of makeApiRequest.
Suspended(call) == call.pc \in { "fetch", "text", "json" }

(***************************************************************************)
(* C18: a call whose name lookup or guard throws is completed by the very  *)
(* step that received it, without suspending; a suspended call is moved    *)
(* only by the settling of the fetch, body-read or parse it awaits (no     *)
(* timer or cancellation moves it, so while nothing settles it stays       *)
(* Dispatched); and when the transport settles every request, every        *)
(* dispatched call eventually completes.                                   *)
(***************************************************************************)
C18_CompletesWhenTransportSettles ==
  /\ [][\A c \in DOMAIN calls :
          (calls[c].pc = "idle" /\ calls'[c] # calls[c])
          => \/ calls'[c].pc = "done" /\ calls'[c].outcome \in OfflineOutcomes
             \/ calls'[c].pc = "fetch"]_vars
  /\ [][\A c \in DOMAIN calls :
          (Suspended(calls[c]) /\ calls'[c] # calls[c]) => Settles(c)]_vars
  /\ Suspended(calls[1]) ~> (calls[1].pc = "done")

\* A call is suspended reading the body of a non-success response.
C18_Witness ==
  \E c \in Slots :
    /\ calls[c].pc = "text"
    /\ calls[c].status = 503
    /\ calls[c].envelope = NoEnvelope

\* s begins with p.
StartsWith(s, p) == Len(s) >= Len(p) /\ SubSeq(s, 1, Len(p)) = p

\* The kind an error of makeApiRequest presents itself as: what its message
\* leads with.
ReportedKind(message) ==
  IF StartsWith(message, "Failed to fetch from ") THEN "TransportError"
  ELSE IF StartsWith(message, "API request failed: ") THEN "RequestFailed"
  ELSE "UnexpectedError"

(***************************************************************************)
(* C19: the error of a dispatched call presents exactly the kind of its    *)
(* trigger. A response with a non-success status is reported as            *)
(* RequestFailed, with the status and the raw body text; a success status  *)
(* whose body fails to parse is reported as UnexpectedError; and only a    *)
(* failure before any response is reported as a transport failure: once a  *)
(* response was received (the call has a status), the error is not         *)
(* reported as a failure to fetch.                                         *)
(***************************************************************************)
C19_ErrorKindFollowsTrigger ==
  \A c \in Slots :
    (calls[c].pc = "done" /\ calls[c].outcome \in RemoteOutcomes \ { "success" })
    => LET kind == ReportedKind(calls[c].error)
       IN /\ calls[c].status = 0 <=> kind = "TransportError"
          /\ calls[c].outcome = "request_failed" <=> kind = "RequestFailed"
          /\ calls[c].outcome = "parse" => kind = "UnexpectedError"

(***************************************************************************)
(* C20: a call of a tool with a required parameter is rejected with the    *)
(* validation error exactly when the value of that parameter is absent,    *)
(* null or the empty string; with any other value, the number 0 and the    *)
(* boolean false included, the call is dispatched.                         *)
(***************************************************************************)
C20_RejectedExactlyWhenEmpty ==
  \A c \in Slots :
    \A r \in RequiredOf(calls[c].name) :
      (HoldsArgs(calls[c]) /\ ~calls[c].args.omitted)
      => LET v == Get(calls[c].args, r)
         IN IF v \in { Undef, Null, Str("") }
            THEN calls[c].pc = "done" /\ calls[c].outcome = "validation"
            ELSE calls[c].pc = "fetch"

\* The names of the catalog whose schema requires no parameter.
NoRequiredNames == { n \in CatalogNames : RequiredByName[n] = {} }

(***************************************************************************)
(* C21: a call of a tool without required parameter whose request carries  *)
(* no arguments member is treated like one with the empty bag {}: it is    *)
(* dispatched, to the endpoint the empty bag is dispatched to (the         *)
(* template's path with no query string), and it does not end in an error  *)
(* before dispatch.                                                        *)
(***************************************************************************)
C21_OmittedArgsLikeEmptyBag ==
  \A c \in Slots :
    ( /\ HoldsArgs(calls[c])
      /\ calls[c].args.omitted
      /\ calls[c].name \in NoRequiredNames )
    => /\ calls[c].pc = "fetch"
       /\ calls[c].endpoint = Invoke(calls[c].name, Bag(<<>>), apiKey).endpoint
       /\ QueryOf(calls[c].endpoint) = ""

\* The cases whose endpoint template embeds the required argument.
PathArgumentNames ==
  { Cases[i].name : i \in { j \in 1..Len(Cases) : Cases[j].arg # "none" } }

(***************************************************************************)
(* C22: the endpoint of a dispatched call whose template embeds the        *)
(* required argument is the template with the percent-encoded argument in  *)
(* it, so it has the template's number of "/" and no "?": no argument      *)
(* value adds a path segment or starts a query string.                     *)
(***************************************************************************)
C22_PathArgumentIsEncoded ==
  \A c \in Slots :
    (calls[c].pc = "fetch" /\ calls[c].name \in PathArgumentNames)
    => LET cs == Cases[CaseIndex(calls[c].name)]
           value == ToStr(Get(calls[c].args, cs.req))
       IN /\ calls[c].endpoint = cs.pre \o encodeURIComponent(value) \o cs.post
          /\ CountChar(calls[c].endpoint, "/") = CountChar(cs.pre \o cs.post, "/")
          /\ CountChar(calls[c].endpoint, "?") = 0

\* The bag that agrees with args on the declared parameters and has no other
\* member: the declared keys args has, in declared order.
DeclaredPart(name, args) ==
  LET declared == DeclaredOf(name)
      present == SelectSeq(declared, LAMBDA k : \E i \in 1..Len(args.pairs) :
                                                  args.pairs[i].k = k)
  IN Bag([i \in 1..Len(present) |-> [k |-> present[i], v |-> Get(args, present[i])]])

\* The keys of the members of a bag.
MemberKeys(args) == { args.pairs[i].k : i \in 1..Len(args.pairs) }

(***************************************************************************)
(* C23: arguments the tool's schema does not declare never influence the   *)
(* request. Whatever other members the bag has and in whatever order,      *)
(* the call ends or is dispatched exactly as the call whose bag holds the  *)
(* declared members only: same endpoint (path and query string), same      *)
(* request, same envelope. So two bags that agree on the declared          *)
(* parameters build the same endpoint, and no key of an undeclared member  *)
(* is a key of the query string a case builds.                             *)
(***************************************************************************)
C23_UndeclaredArgsIgnored ==
  \A c \in Slots :
    ( /\ HoldsArgs(calls[c])
      /\ ~calls[c].args.omitted
      /\ calls[c].name \in CatalogNames )
    => LET own == Invoke(calls[c].name, DeclaredPart(calls[c].name, calls[c].args),
                         apiKey)
       IN /\ calls[c].pc = own.pc
          /\ calls[c].endpoint = own.endpoint
          /\ calls[c].request = own.request
          /\ calls[c].envelope = own.envelope
          /\ BuildsQuery(calls[c].name)
               => \A k \in MemberKeys(calls[c].args) :
                    PositionIn(DeclaredOf(calls[c].name), k) = 0
                    => PositionIn(QueryKeys(calls[c].endpoint), k) = 0

\* esg_data was dispatched with an undeclared member written before the
\* ticker; the endpoint is that of the ticker alone.
C23_Witness ==
  \E c \in Slots :
    /\ calls[c].pc = "fetch"
    /\ calls[c].name = "esg_data"
    /\ Len(calls[c].args.pairs) = 2
    /\ calls[c].args.pairs[1] = [k |-> "extra", v |-> Str("NASDAQ")]
    /\ calls[c].args.pairs[2] = [k |-> "ticker", v |-> Num(3)]
    /\ calls[c].endpoint = "esg/3"

\* A call's record without the headers of its request.
WithoutHeaders(call) == [call EXCEPT !.request.headers = <<>>]

\* The key text of a configured key does not occur in text.
KeyAbsentFrom(text, key) ==
  (key.t = "string" /\ key.s # "")
  => \A i \in 1..(Len(text) - Len(key.s) + 1) :
       SubSeq(text, i, i + Len(key.s) - 1) # key.s

(***************************************************************************)
(* C24: the API key influences nothing but the Authorization header. Of    *)
(* two runs that differ only in the key and receive the same requests and  *)
(* the same remote answers, the invocations agree at every moment in       *)
(* everything but the request's headers: same endpoint, same URL, same     *)
(* envelope; the headers agree on Content-Type; and neither run's key      *)
(* occurs in a URL or in an envelope text.                                 *)
(***************************************************************************)
C24_KeyOnlyInAuthorization ==
  /\ WithoutHeaders(calls[1]) = WithoutHeaders(calls[2])
  /\ HeaderValues(calls[1].request.headers, "Content-Type")
       = HeaderValues(calls[2].request.headers, "Content-Type")
  /\ \A key \in { apiKey, OtherKey(apiKey) } :
       \A c \in 1..2 :
         /\ KeyAbsentFrom(calls[c].request.url, key)
         /\ calls[c].pc = "done" => KeyAbsentFrom(EnvelopeText(calls[c]), key)

\* The run with the key and the run without it have returned the same error
\* envelope for a 404 answer, having sent different headers.
C24_Witness ==
  /\ apiKey = Str("sk-live-KEY")
  /\ calls[1].pc = "done" /\ calls[2].pc = "done"
  /\ calls[1].outcome = "request_failed"
  /\ calls[1].status = 404
  /\ HeaderValues(calls[1].request.headers, "Authorization") = <<"Bearer sk-live-KEY">>
  /\ HeaderValues(calls[2].request.headers, "Authorization") = <<>>
  /\ calls[1].envelope = calls[2].envelope
====
